---- MODULE Spec2Model ----
(***************************************************************************)
(* Model of x/ibc/07-tendermint/update.go: the Tendermint light client's   *)
(* CheckValidityAndUpdateState, its checkValidity gates and its update     *)
(* step, together with the client that feeds each returned client state    *)
(* into the next call.                                                     *)
(***************************************************************************)
EXTENDS Integers, Sequences, FiniteSets, TLC

VARIABLES clientState, accepted, now, args, ret, pc

vars == <<clientState, accepted, now, args, ret, pc>>

(***************************************************************************)
(* Bounds of the model.                                                    *)
(***************************************************************************)
MaxHeight == 3
MaxTime == 1
MaxNow == 2
MaxPeriod == 2
MaxUpdates == 2
ClientTrustingPeriod == 1

Heights == 1..MaxHeight
ChainIDs == {"chain-A", "chain-B"}
ClientChainID == "chain-A"
AppHashes == {"apphash-1", "apphash-2"}
Validators == {1, 2}
ValidatorSets == {{1}, {1, 2}}
SignerSets == {{}, {1}, {1, 2}}

(***************************************************************************)
(* Values.                                                                 *)
(***************************************************************************)
\* tmtypes.ValidatorSet.Hash(): an injective digest of the set's members.
RECURSIVE Hash(_)
Hash(vals) ==
    IF vals = {} THEN 0
    ELSE LET v == CHOOSE x \in vals : \A y \in vals : x >= y
         IN  (2 ^ (v - 1)) + Hash(vals \ {v})

ValidatorHashes == {Hash(vs) : vs \in ValidatorSets}

\* commitment.NewRoot: wraps the application hash in a Root value.
NewRoot(appHash) == [Hash |-> appHash]

\* A client state of this module's variant (ClientState) ...
TmClientState(h) == [variant |-> "tendermint", LatestHeight |-> h]
\* ... one of another variant behind the same interface, and the nil interface.
ForeignClientState == [variant |-> "other", LatestHeight |-> 0]
NilClientState == [variant |-> "nil", LatestHeight |-> 0]

ClientStates == {TmClientState(h) : h \in Heights} \cup {ForeignClientState}

\* The consensus state update() builds, and the nil interface.
ConsensusState(root, valsHash) ==
    [variant |-> "tendermint", Root |-> root, ValidatorSetHash |-> valsHash]
NilConsensusState ==
    [variant |-> "nil", Root |-> [Hash |-> "none"], ValidatorSetHash |-> 0]

\* Headers of this module's variant: the signed header's chain id, time,
\* declared validator-set hash and commit signers, the validator set and
\* the application hash.
TmHeaders(heights, chains, times, hashes, signers, valsets, apps) ==
    [variant : {"tendermint"}, Height : heights, ChainID : chains,
     Time : times, ValidatorsHash : hashes, Signers : signers,
     ValidatorSet : valsets, AppHash : apps]

ForeignHeader ==
    [variant |-> "other", Height |-> 0, ChainID |-> "chain-A", Time |-> 0,
     ValidatorsHash |-> 0, Signers |-> {}, ValidatorSet |-> {},
     AppHash |-> "apphash-1"]

\* The trusted (old) headers offered: the code reads their height and
\* hands their signed header to the verifier, which reads its time.
OldHeaders ==
    TmHeaders(Heights, {ClientChainID}, 0..MaxTime, {Hash({1, 2})},
              {{1, 2}}, {{1, 2}}, {"apphash-1"})
      \cup {ForeignHeader}

\* The untrusted (new) headers offered.
NewHeaders ==
    TmHeaders(Heights, ChainIDs, {MaxTime}, ValidatorHashes, SignerSets,
              ValidatorSets, AppHashes)
      \cup {ForeignHeader}

(***************************************************************************)
(* Errors: the registered error wrapped with a description.                *)
(***************************************************************************)
NoError == [sentinel |-> "nil", desc |-> ""]
Wrap(sentinel, desc) == [sentinel |-> sentinel, desc |-> desc]

WrongClientType ==
    Wrap("ErrInvalidClientType", "light client is not from Tendermint")
WrongHeaderType ==
    Wrap("ErrInvalidHeader", "header is not from Tendermint")
NonIncreasingHeight ==
    Wrap("ErrInvalidHeader", "new header height <= old header height")
HeightBelowLatestTrusted ==
    Wrap("ErrInvalidHeader", "header height < latest client state height")
HeaderSelfValidationFailed ==
    Wrap("HeaderSelfValidationFailed", "invalid header")
BisectionVerificationFailed ==
    Wrap("BisectionVerificationFailed", "verification failed")

(***************************************************************************)
(* Collaborators of update.go.                                             *)
(***************************************************************************)
\* Header.ValidateBasic(chainID): chain id match and a well-formed signed
\* header (a commit with signatures).
ValidateBasic(header, chainID) ==
    IF header.ChainID = chainID /\ header.Signers # {}
    THEN NoError
    ELSE HeaderSelfValidationFailed

DefaultTrustLevel == [Numerator |-> 2, Denominator |-> 3]

\* lite.Verify: the bisection verifier's contract. Every rejection is the
\* one outward kind.
Verify(chainID, trusted, trustedNextVals, untrusted, untrustedVals, trustingPeriod, clock, trustLevel) ==
    LET expired == clock - trusted.Time > trustingPeriod
        hashOK == untrusted.ValidatorsHash = Hash(untrustedVals)
        signed == Cardinality(untrusted.Signers \cap trustedNextVals)
        total == Cardinality(trustedNextVals)
        enough == signed * trustLevel.Denominator
                    >= total * trustLevel.Numerator
    IN  IF ~expired /\ hashOK /\ enough
        THEN NoError
        ELSE BisectionVerificationFailed

(***************************************************************************)
(* update.go                                                               *)
(***************************************************************************)
\* Gate 1 (line 70): the new header is not above the old one.
heightNotAboveOld_Strict(newHeader, oldHeader) ==
    newHeader.Height < oldHeader.Height

heightNotAboveOld(newHeader, oldHeader) ==
    newHeader.Height <= oldHeader.Height

\* Gate 2 (line 77): the new header is below the client's latest height.
heightBelowLatest_Off(newHeader, cs) == FALSE

heightBelowLatest_OffByOne(newHeader, cs) ==
    newHeader.Height + 1 < cs.LatestHeight

heightBelowLatest(newHeader, cs) ==
    newHeader.Height < cs.LatestHeight

\* checkValidity with the verifier's verdict dropped.
checkValidity_SkipVerify(cs, oldHeader, newHeader, oldHeaderNextVals, chainID, trustingPeriod, clock) ==
    IF heightNotAboveOld(newHeader, oldHeader)
    THEN [err |-> NonIncreasingHeight, steps |-> <<"height>old">>]
    ELSE IF heightBelowLatest(newHeader, cs)
    THEN [err |-> HeightBelowLatestTrusted,
          steps |-> <<"height>old", "height>=latest">>]
    ELSE [err |-> ValidateBasic(newHeader, chainID),
          steps |-> <<"height>old", "height>=latest", "ValidateBasic">>]

\* checkValidity with the header's self-validation dropped.
checkValidity_SkipValidateBasic(cs, oldHeader, newHeader, oldHeaderNextVals, chainID, trustingPeriod, clock) ==
    IF heightNotAboveOld(newHeader, oldHeader)
    THEN [err |-> NonIncreasingHeight, steps |-> <<"height>old">>]
    ELSE IF heightBelowLatest(newHeader, cs)
    THEN [err |-> HeightBelowLatestTrusted,
          steps |-> <<"height>old", "height>=latest">>]
    ELSE [err |-> Verify(chainID, oldHeader, oldHeaderNextVals, newHeader,
                         newHeader.ValidatorSet, trustingPeriod, clock,
                         DefaultTrustLevel),
          steps |-> <<"height>old", "height>=latest", "time.Now",
                      "Verify">>]

\* checkValidity with the two height gates in the other order.
checkValidity_LatestFirst(cs, oldHeader, newHeader, oldHeaderNextVals, chainID, trustingPeriod, clock) ==
    IF heightBelowLatest(newHeader, cs)
    THEN [err |-> HeightBelowLatestTrusted, steps |-> <<"height>=latest">>]
    ELSE IF heightNotAboveOld(newHeader, oldHeader)
    THEN [err |-> NonIncreasingHeight,
          steps |-> <<"height>=latest", "height>old">>]
    ELSE IF ValidateBasic(newHeader, chainID) # NoError
    THEN [err |-> ValidateBasic(newHeader, chainID),
          steps |-> <<"height>=latest", "height>old", "ValidateBasic">>]
    ELSE [err |-> Verify(chainID, oldHeader, oldHeaderNextVals, newHeader,
                         newHeader.ValidatorSet, trustingPeriod, clock,
                         DefaultTrustLevel),
          steps |-> <<"height>=latest", "height>old", "ValidateBasic",
                      "time.Now", "Verify">>]

\* checkValidity replacing the verifier's error by one of its own.
checkValidity_RewrapsVerify(cs, oldHeader, newHeader, oldHeaderNextVals, chainID, trustingPeriod, clock) ==
    IF heightNotAboveOld(newHeader, oldHeader)
    THEN [err |-> NonIncreasingHeight, steps |-> <<"height>old">>]
    ELSE IF heightBelowLatest(newHeader, cs)
    THEN [err |-> HeightBelowLatestTrusted,
          steps |-> <<"height>old", "height>=latest">>]
    ELSE IF ValidateBasic(newHeader, chainID) # NoError
    THEN [err |-> ValidateBasic(newHeader, chainID),
          steps |-> <<"height>old", "height>=latest", "ValidateBasic">>]
    ELSE [err |-> IF Verify(chainID, oldHeader, oldHeaderNextVals,
                            newHeader, newHeader.ValidatorSet,
                            trustingPeriod, clock,
                            DefaultTrustLevel) = NoError
                  THEN NoError
                  ELSE Wrap("ErrInvalidHeader", "header failed verification"),
          steps |-> <<"height>old", "height>=latest", "ValidateBasic",
                      "time.Now", "Verify">>]

\* checkValidity calling the verifier, and reading the clock, before the
\* gates.
checkValidity_VerifyFirst(cs, oldHeader, newHeader, oldHeaderNextVals, chainID, trustingPeriod, clock) ==
    IF Verify(chainID, oldHeader, oldHeaderNextVals, newHeader,
              newHeader.ValidatorSet, trustingPeriod, clock,
              DefaultTrustLevel) # NoError
    THEN [err |-> BisectionVerificationFailed,
          steps |-> <<"time.Now", "Verify">>]
    ELSE IF heightNotAboveOld(newHeader, oldHeader)
    THEN [err |-> NonIncreasingHeight,
          steps |-> <<"time.Now", "Verify", "height>old">>]
    ELSE IF heightBelowLatest(newHeader, cs)
    THEN [err |-> HeightBelowLatestTrusted,
          steps |-> <<"time.Now", "Verify", "height>old",
                      "height>=latest">>]
    ELSE [err |-> ValidateBasic(newHeader, chainID),
          steps |-> <<"time.Now", "Verify", "height>old", "height>=latest",
                      "ValidateBasic">>]

\* checkValidity: the four gates in order; `clock` is the value time.Now()
\* yields. The result carries the error and the steps evaluated.
checkValidity(cs, oldHeader, newHeader, oldHeaderNextVals, chainID, trustingPeriod, clock) ==
    IF heightNotAboveOld(newHeader, oldHeader)
    THEN [err |-> NonIncreasingHeight, steps |-> <<"height>old">>]
    ELSE IF heightBelowLatest(newHeader, cs)
    THEN [err |-> HeightBelowLatestTrusted,
          steps |-> <<"height>old", "height>=latest">>]
    ELSE IF ValidateBasic(newHeader, chainID) # NoError
    THEN [err |-> ValidateBasic(newHeader, chainID),
          steps |-> <<"height>old", "height>=latest", "ValidateBasic">>]
    ELSE [err |-> Verify(chainID, oldHeader, oldHeaderNextVals, newHeader,
                         newHeader.ValidatorSet, trustingPeriod, clock,
                         DefaultTrustLevel),
          steps |-> <<"height>old", "height>=latest", "ValidateBasic",
                      "time.Now", "Verify">>]

\* update that leaves the client's latest height as it was.
update_KeepHeight(cs, header) ==
    [clientState |-> cs,
     consensusState |-> ConsensusState(NewRoot(header.AppHash),
                                       Hash(header.ValidatorSet))]

\* update that builds no new root for a height the client already has.
update_KeepsRootAtSameHeight(cs, header) ==
    [clientState |-> [cs EXCEPT !.LatestHeight = header.Height],
     consensusState |->
         IF header.Height = cs.LatestHeight
         THEN ConsensusState(NewRoot("none"), Hash(header.ValidatorSet))
         ELSE ConsensusState(NewRoot(header.AppHash),
                             Hash(header.ValidatorSet))]

\* update: the next client state and the consensus state of the header.
update(cs, header) ==
    [clientState |-> [cs EXCEPT !.LatestHeight = header.Height],
     consensusState |-> ConsensusState(NewRoot(header.AppHash),
                                       Hash(header.ValidatorSet))]

Failure(err, steps) ==
    [clientState |-> NilClientState, consensusState |-> NilConsensusState,
     err |-> err, steps |-> steps]

\* CheckValidityAndUpdateState handing back the client state with an error.
CheckValidityAndUpdateState_PartialOnError(cs, oldHeader, newHeader, oldHeaderNextVals, chainID, trustingPeriod, clock) ==
    IF cs.variant # "tendermint"
    THEN Failure(WrongClientType, <<>>)
    ELSE IF oldHeader.variant # "tendermint"
    THEN Failure(WrongHeaderType, <<>>)
    ELSE IF newHeader.variant # "tendermint"
    THEN Failure(WrongHeaderType, <<>>)
    ELSE LET chk == checkValidity(cs, oldHeader, newHeader,
                                  oldHeaderNextVals, chainID,
                                  trustingPeriod, clock)
             upd == update(cs, newHeader)
         IN  IF chk.err # NoError
             THEN [clientState |-> cs,
                   consensusState |-> NilConsensusState,
                   err |-> chk.err, steps |-> chk.steps]
             ELSE [clientState |-> upd.clientState,
                   consensusState |-> upd.consensusState,
                   err |-> NoError,
                   steps |-> chk.steps \o <<"update">>]

\* CheckValidityAndUpdateState asserting the headers' type before the
\* client state's.
CheckValidityAndUpdateState_HeadersFirst(cs, oldHeader, newHeader, oldHeaderNextVals, chainID, trustingPeriod, clock) ==
    IF oldHeader.variant # "tendermint"
    THEN Failure(WrongHeaderType, <<>>)
    ELSE IF newHeader.variant # "tendermint"
    THEN Failure(WrongHeaderType, <<>>)
    ELSE IF cs.variant # "tendermint"
    THEN Failure(WrongClientType, <<>>)
    ELSE LET chk == checkValidity(cs, oldHeader, newHeader,
                                  oldHeaderNextVals, chainID,
                                  trustingPeriod, clock)
             upd == update(cs, newHeader)
         IN  IF chk.err # NoError
             THEN Failure(chk.err, chk.steps)
             ELSE [clientState |-> upd.clientState,
                   consensusState |-> upd.consensusState,
                   err |-> NoError,
                   steps |-> chk.steps \o <<"update">>]

\* CheckValidityAndUpdateState: type assertions, checkValidity, update.
CheckValidityAndUpdateState(cs, oldHeader, newHeader, oldHeaderNextVals, chainID, trustingPeriod, clock) ==
    IF cs.variant # "tendermint"
    THEN Failure(WrongClientType, <<>>)
    ELSE IF oldHeader.variant # "tendermint"
    THEN Failure(WrongHeaderType, <<>>)
    ELSE IF newHeader.variant # "tendermint"
    THEN Failure(WrongHeaderType, <<>>)
    ELSE LET chk == checkValidity(cs, oldHeader, newHeader,
                                  oldHeaderNextVals, chainID,
                                  trustingPeriod, clock)
             upd == update(cs, newHeader)
         IN  IF chk.err # NoError
             THEN Failure(chk.err, chk.steps)
             ELSE [clientState |-> upd.clientState,
                   consensusState |-> upd.consensusState,
                   err |-> NoError,
                   steps |-> chk.steps \o <<"update">>]

(***************************************************************************)
(* State machines.                                                         *)
(***************************************************************************)
Args(oldHeader, newHeader, vals, chainID, period) ==
    [oldHeader |-> oldHeader, newHeader |-> newHeader,
     oldHeaderNextVals |-> vals, chainID |-> chainID,
     trustingPeriod |-> period]

NoArgs == Args(ForeignHeader, ForeignHeader, {}, ClientChainID, 0)
NoRet == Failure(NoError, <<>>)

\* One call: the caller holds clientState and the arguments, the call
\* returns; the caller's clientState value is passed by value.
InitCall ==
    /\ clientState \in ClientStates
    /\ accepted = <<>>
    /\ now \in 0..MaxNow
    /\ args \in {Args(o, n, v, c, p) :
                   o \in OldHeaders, n \in NewHeaders, v \in ValidatorSets,
                   c \in ChainIDs, p \in 1..MaxPeriod}
    /\ ret = NoRet
    /\ pc = "ready"

Call ==
    /\ pc = "ready"
    /\ ret' = CheckValidityAndUpdateState(
                  clientState, args.oldHeader, args.newHeader,
                  args.oldHeaderNextVals, args.chainID,
                  args.trustingPeriod, now)
    /\ pc' = "returned"
    /\ UNCHANGED <<clientState, accepted, now, args>>

NextCall == Call

SpecCall == InitCall /\ [][NextCall]_vars

\* One client over time: every call is made on the stored client state and
\* a successful call's returned client state replaces it.
Init ==
    /\ clientState \in {TmClientState(h) : h \in Heights}
    /\ accepted = <<>>
    /\ now = 0
    /\ args = NoArgs
    /\ ret = NoRet
    /\ pc = "idle"

UpdateClient(oldHeader, newHeader, vals) ==
    LET r == CheckValidityAndUpdateState(
                 clientState, oldHeader, newHeader, vals, ClientChainID,
                 ClientTrustingPeriod, now)
    IN  /\ pc = "idle"
        /\ Len(accepted) < MaxUpdates
        /\ r.err = NoError
        /\ clientState' = r.clientState
        /\ accepted' = Append(accepted,
               [Height |-> newHeader.Height,
                Time |-> newHeader.Time,
                oldHeight |-> oldHeader.Height,
                latestBefore |-> clientState.LatestHeight,
                consensusState |-> r.consensusState])
        /\ UNCHANGED <<now, args, ret, pc>>

Tick ==
    /\ pc = "idle"
    /\ now < MaxNow
    /\ now' = now + 1
    /\ UNCHANGED <<clientState, accepted, args, ret, pc>>

Next ==
    \/ \E o \in OldHeaders, n \in NewHeaders, v \in ValidatorSets :
          UpdateClient(o, n, v)
    \/ Tick

Spec == Init /\ [][Next]_vars

\* The same client keeping only the record of its latest trusted header,
\* with no bound on the number of updates.
ReplaceTrusted(oldHeader, newHeader, vals) ==
    LET r == CheckValidityAndUpdateState(
                 clientState, oldHeader, newHeader, vals, ClientChainID,
                 ClientTrustingPeriod, now)
    IN  /\ pc = "idle"
        /\ r.err = NoError
        /\ clientState' = r.clientState
        /\ accepted' = <<[Height |-> newHeader.Height,
                          Time |-> newHeader.Time,
                          oldHeight |-> oldHeader.Height,
                          latestBefore |-> clientState.LatestHeight,
                          consensusState |-> r.consensusState]>>
        /\ UNCHANGED <<now, args, ret, pc>>

NextLatest ==
    \/ \E o \in OldHeaders, n \in NewHeaders, v \in ValidatorSets :
          ReplaceTrusted(o, n, v)
    \/ Tick

SpecLatest == Init /\ [][NextLatest]_vars

(***************************************************************************)
(* Properties.                                                             *)
(***************************************************************************)
AllTendermint ==
    /\ clientState.variant = "tendermint"
    /\ args.oldHeader.variant = "tendermint"
    /\ args.newHeader.variant = "tendermint"

Returned == pc = "returned"
Succeeded == Returned /\ ret.err = NoError
NoStateReturned ==
    /\ ret.clientState = NilClientState
    /\ ret.consensusState = NilConsensusState

SelfValid == ValidateBasic(args.newHeader, args.chainID) = NoError
VerifierAccepts ==
    Verify(args.chainID, args.oldHeader, args.oldHeaderNextVals,
           args.newHeader, args.newHeader.ValidatorSet, args.trustingPeriod,
           now, DefaultTrustLevel) = NoError

\* C1: over the successive updates of one client, each made on the client
\* state the previous one returned, latestHeight never decreases.
C1_LatestHeightNeverDecreases ==
    [][clientState'.LatestHeight >= clientState.LatestHeight]_vars

\* C1 witness: an update has been accepted and raised latestHeight.
C1_Witness ==
    /\ Len(accepted) > 0
    /\ clientState.LatestHeight > accepted[Len(accepted)].latestBefore

\* C2 as stated: every accepted header's height is strictly above the
\* latestHeight of the client state it was checked against.
C2_AcceptedStrictlyAboveLatest ==
    \A i \in 1..Len(accepted) :
        accepted[i].Height > accepted[i].latestBefore

\* C2 amended: every accepted header's height is strictly above the old
\* header's height and at least the latestHeight of the client state it was
\* checked against; it may equal that latestHeight.
C2_AcceptedAboveOldAndNotBelowLatest ==
    \A i \in 1..Len(accepted) :
        /\ accepted[i].Height > accepted[i].oldHeight
        /\ accepted[i].Height >= accepted[i].latestBefore

\* C2 witness: a header was accepted at the client's own latestHeight, from
\* an old header below it.
C2_Witness ==
    \E i \in 1..Len(accepted) :
        /\ accepted[i].Height = accepted[i].latestBefore
        /\ accepted[i].oldHeight < accepted[i].latestBefore

\* C3: a successful call passed the type assertions and all four gates:
\* height above the old header, height not below latestHeight, header
\* self-validation, and the verifier; an input failing any gate gets no state.
C3_SuccessImpliesAllGates ==
    Returned =>
      /\ ret.err = NoError =>
           /\ AllTendermint
           /\ args.newHeader.Height > args.oldHeader.Height
           /\ args.newHeader.Height >= clientState.LatestHeight
           /\ SelfValid
           /\ VerifierAccepts
      /\ ( \/ ~(args.newHeader.Height > args.oldHeader.Height)
           \/ ~(args.newHeader.Height >= clientState.LatestHeight)
           \/ ~SelfValid
           \/ ~VerifierAccepts ) => NoStateReturned

\* C3 witness: a call has succeeded.
C3_Witness == Succeeded /\ AllTendermint /\ SelfValid /\ VerifierAccepts

\* C4: with Tendermint inputs, new height > old height >= latestHeight, a
\* self-consistent new header and an accepting verifier, the call succeeds
\* and the returned client state's latestHeight is the new header's height.
C4_ValidPairSucceeds ==
    ( /\ Returned
      /\ AllTendermint
      /\ args.newHeader.Height > args.oldHeader.Height
      /\ args.oldHeader.Height >= clientState.LatestHeight
      /\ SelfValid
      /\ VerifierAccepts )
    => /\ ret.err = NoError
       /\ ret.clientState = TmClientState(args.newHeader.Height)

\* C4 witness: such a call has returned, from an old header above the
\* client's latestHeight.
C4_Witness ==
    /\ Succeeded
    /\ args.oldHeader.Height > clientState.LatestHeight
    /\ ret.clientState.LatestHeight = args.newHeader.Height

\* C5: with new height <= old height the checker fails with
\* NonIncreasingHeight and no state is returned, whatever the client's
\* latestHeight, the signatures, the time and the trusting period.
C5_NonIncreasingHeightRejected ==
    ( /\ Returned
      /\ AllTendermint
      /\ args.newHeader.Height <= args.oldHeader.Height )
    => /\ ret.err = NonIncreasingHeight
       /\ NoStateReturned

\* C5 witness: equal heights, on a header that would otherwise pass, were
\* rejected.
C5_Witness ==
    /\ Returned
    /\ AllTendermint
    /\ args.newHeader.Height = args.oldHeader.Height
    /\ args.newHeader.Height >= clientState.LatestHeight
    /\ SelfValid
    /\ VerifierAccepts
    /\ ret.err = NonIncreasingHeight

\* C6 as stated: every input with new height < latestHeight fails with
\* HeightBelowLatestTrusted.
C6_BelowLatestAlwaysThatKind ==
    ( /\ Returned
      /\ AllTendermint
      /\ args.newHeader.Height < clientState.LatestHeight )
    => ret.err = HeightBelowLatestTrusted

\* C6 amended: an input with old height < new height < latestHeight fails
\* with HeightBelowLatestTrusted, an error different from NonIncreasingHeight
\* and WrongHeaderType, and returns no state; with new height < latestHeight
\* and new height <= old height the error is NonIncreasingHeight.
C6_BelowLatestAboveOldRejected ==
    ( /\ Returned
      /\ AllTendermint
      /\ args.newHeader.Height < clientState.LatestHeight )
    => /\ NoStateReturned
       /\ args.newHeader.Height > args.oldHeader.Height
            => /\ ret.err = HeightBelowLatestTrusted
               /\ ret.err \notin {NonIncreasingHeight, WrongHeaderType}
       /\ args.newHeader.Height <= args.oldHeader.Height
            => ret.err = NonIncreasingHeight

\* C6 witness: old height < new height < latestHeight, on a header that
\* would otherwise pass, was rejected as below the latest trusted height.
C6_Witness ==
    /\ Returned
    /\ AllTendermint
    /\ args.oldHeader.Height < args.newHeader.Height
    /\ args.newHeader.Height < clientState.LatestHeight
    /\ SelfValid
    /\ VerifierAccepts
    /\ ret.err = HeightBelowLatestTrusted

\* C7: a failing call returns neither a client state nor a consensus state,
\* a successful call returns both, and in either case the caller's client
\* state value is what it was before the call.
C7_AllOrNothing ==
    [][ pc' = "returned" =>
          /\ ret'.err # NoError =>
               /\ ret'.clientState = NilClientState
               /\ ret'.consensusState = NilConsensusState
          /\ ret'.err = NoError =>
               /\ ret'.clientState.variant = "tendermint"
               /\ ret'.consensusState.variant = "tendermint"
          /\ clientState' = clientState ]_vars

\* C7 witness: a call that passed the height gates and self-validation was
\* rejected by the verifier and returned nothing.
C7_Witness ==
    /\ Returned
    /\ AllTendermint
    /\ ret.err = BisectionVerificationFailed
    /\ NoStateReturned

\* C8: a foreign client state fails with WrongClientType, also when a header
\* is foreign too; a Tendermint client state with a foreign old or new header
\* fails with WrongHeaderType; in both cases no gate, self-validation or
\* verifier step is evaluated and no state is returned.
C8_ForeignVariantRejected ==
    Returned =>
      /\ clientState.variant # "tendermint" =>
           /\ ret.err = WrongClientType
           /\ ret.steps = <<>>
           /\ NoStateReturned
      /\ ( /\ clientState.variant = "tendermint"
           /\ \/ args.oldHeader.variant # "tendermint"
              \/ args.newHeader.variant # "tendermint" ) =>
           /\ ret.err = WrongHeaderType
           /\ ret.steps = <<>>
           /\ NoStateReturned

\* C8 witness: a foreign client state with a foreign header was rejected as
\* a wrong client type.
C8_Witness ==
    /\ Returned
    /\ clientState.variant # "tendermint"
    /\ args.newHeader.variant # "tendermint"
    /\ ret.err = WrongClientType

\* C9 as stated: over the successive updates of one client, the headers
\* accepted at one height all produce the same consensus state.
C9_OneConsensusStatePerHeight ==
    \A i, j \in 1..Len(accepted) :
        accepted[i].Height = accepted[j].Height
          => accepted[i].consensusState = accepted[j].consensusState

\* C9 amended: the accepted heights never decrease, and a height H is
\* accepted again only while H is still the client's latestHeight, from an
\* old header below H; the consensus state so produced may differ.
C9_ReacceptedOnlyAtLatest ==
    \A i, j \in 1..Len(accepted) :
        i < j =>
          /\ accepted[i].Height <= accepted[j].Height
          /\ accepted[i].Height = accepted[j].Height =>
               /\ accepted[j].latestBefore = accepted[j].Height
               /\ accepted[j].oldHeight < accepted[j].Height

\* C9 witness: two headers accepted at one height produced different
\* consensus states.
C9_Witness ==
    \E i, j \in 1..Len(accepted) :
        /\ i < j
        /\ accepted[i].Height = accepted[j].Height
        /\ accepted[i].consensusState # accepted[j].consensusState

\* C10: when now - oldHeader.time > trustingPeriod the call fails and
\* returns no state, whatever the signatures and the heights.
C10_ExpiredOldHeaderRejected ==
    ( /\ Returned
      /\ args.oldHeader.variant = "tendermint"
      /\ now - args.oldHeader.Time > args.trustingPeriod )
    => /\ ret.err # NoError
       /\ NoStateReturned

\* C10 witness: a header that passes every other check, and that the
\* verifier accepts at the old header's own time, was rejected on expiry.
C10_Witness ==
    /\ Returned
    /\ AllTendermint
    /\ now - args.oldHeader.Time > args.trustingPeriod
    /\ args.newHeader.Height > args.oldHeader.Height
    /\ args.newHeader.Height >= clientState.LatestHeight
    /\ SelfValid
    /\ Verify(args.chainID, args.oldHeader, args.oldHeaderNextVals,
              args.newHeader, args.newHeader.ValidatorSet,
              args.trustingPeriod, args.oldHeader.Time,
              DefaultTrustLevel) = NoError
    /\ ret.err = BisectionVerificationFailed

\* C11: when both height gates and self-validation pass and the verifier
\* rejects, the call fails with the verifier's own error, the one
\* BisectionVerificationFailed kind, and returns no state.
C11_VerifierErrorPropagated ==
    ( /\ Returned
      /\ AllTendermint
      /\ args.newHeader.Height > args.oldHeader.Height
      /\ args.newHeader.Height >= clientState.LatestHeight
      /\ SelfValid
      /\ ~VerifierAccepts )
    => /\ ret.err = Verify(args.chainID, args.oldHeader,
                           args.oldHeaderNextVals, args.newHeader,
                           args.newHeader.ValidatorSet, args.trustingPeriod,
                           now, DefaultTrustLevel)
       /\ ret.err = BisectionVerificationFailed
       /\ NoStateReturned

\* C11 witness: within the trusting period and with a matching validator-set
\* hash, a header signed by too little of the trusted next validators was
\* rejected by the verifier.
C11_Witness ==
    /\ Returned
    /\ AllTendermint
    /\ args.newHeader.Height > args.oldHeader.Height
    /\ args.newHeader.Height >= clientState.LatestHeight
    /\ SelfValid
    /\ now - args.oldHeader.Time <= args.trustingPeriod
    /\ args.newHeader.ValidatorsHash = Hash(args.newHeader.ValidatorSet)
    /\ 3 * Cardinality(args.newHeader.Signers \cap args.oldHeaderNextVals)
         < 2 * Cardinality(args.oldHeaderNextVals)
    /\ ret.err = BisectionVerificationFailed

\* C12: the outcome of a call does not depend on the wall-clock instant at
\* which it is made: with the same arguments, a caller at any other instant
\* obtains the same error or the same returned states.
C12_OutcomeIndependentOfWallClock ==
    Returned =>
      \A instant \in 0..MaxNow :
          LET other == CheckValidityAndUpdateState(
                           clientState, args.oldHeader, args.newHeader,
                           args.oldHeaderNextVals, args.chainID,
                           args.trustingPeriod, instant)
          IN  /\ other.err = ret.err
              /\ other.clientState = ret.clientState
              /\ other.consensusState = ret.consensusState

\* The outcome of an update offered to the client in the current state.
Offered(o, n, v) ==
    CheckValidityAndUpdateState(clientState, o, n, v, ClientChainID,
                                ClientTrustingPeriod, now)

\* The header passes both height gates and self-validation, and the
\* verifier accepts it when asked at time `clock`.
PassesAt(o, n, v, clock) ==
    /\ o.variant = "tendermint"
    /\ n.variant = "tendermint"
    /\ n.Height > o.Height
    /\ n.Height >= clientState.LatestHeight
    /\ ValidateBasic(n, ClientChainID) = NoError
    /\ Verify(ClientChainID, o, v, n, n.ValidatorSet, ClientTrustingPeriod,
              clock, DefaultTrustLevel) = NoError

\* C14 as stated: while the client's own latest trusted header, the one last
\* accepted, is within the trusting period, every header that passes the
\* height gates and self-validation and carries enough signatures and a
\* matching validator-set hash is accepted.
C14_AcceptsWithinPeriodOfLatestTrusted ==
    ( /\ Len(accepted) > 0
      /\ now - accepted[Len(accepted)].Time <= ClientTrustingPeriod )
    => \A o \in OldHeaders, n \in NewHeaders, v \in ValidatorSets :
           PassesAt(o, n, v, o.Time) => Offered(o, n, v).err = NoError

\* C14 amended: in every state reached by successful updates, every header
\* that passes the height gates and self-validation and that the verifier
\* accepts against the old header supplied with it is accepted, an accepted
\* header's supplied old header is within the trusting period, and such an
\* update exists whenever an old header within the trusting period does.
C14_NoTerminalState ==
    /\ \A o \in OldHeaders, n \in NewHeaders, v \in ValidatorSets :
          /\ PassesAt(o, n, v, now) => Offered(o, n, v).err = NoError
          /\ Offered(o, n, v).err = NoError
               => now - o.Time <= ClientTrustingPeriod
    /\ (\E t \in 0..MaxTime : now - t <= ClientTrustingPeriod)
         => \E o \in OldHeaders, n \in NewHeaders, v \in ValidatorSets :
                Offered(o, n, v).err = NoError

\* C14 witness: after a successful update whose header is still within the
\* trusting period, one offered update is rejected only because the old
\* header supplied with it has expired, and another is accepted.
C14_Witness ==
    /\ Len(accepted) > 0
    /\ now - accepted[Len(accepted)].Time <= ClientTrustingPeriod
    /\ \E o \in OldHeaders, n \in NewHeaders, v \in ValidatorSets :
          /\ PassesAt(o, n, v, o.Time)
          /\ now - o.Time > ClientTrustingPeriod
          /\ Offered(o, n, v).err = BisectionVerificationFailed
    /\ \E o \in OldHeaders, n \in NewHeaders, v \in ValidatorSets :
          Offered(o, n, v).err = NoError

\* C15: the consensus state a successful call returns is built from the
\* header alone, root from its appHash and validatorSetHash from its
\* validator set, the returned latestHeight is the header's height, and
\* update on the same header gives that same consensus state with any
\* client state.
C15_ConsensusStateFromHeaderAlone ==
    Succeeded =>
      /\ ret.consensusState =
           ConsensusState(NewRoot(args.newHeader.AppHash),
                          Hash(args.newHeader.ValidatorSet))
      /\ ret.clientState.LatestHeight = args.newHeader.Height
      /\ \A h \in Heights :
           /\ update(TmClientState(h), args.newHeader).consensusState
                = ret.consensusState
           /\ update(TmClientState(h), args.newHeader).clientState
                = TmClientState(args.newHeader.Height)

\* C15 witness: a header at the client's own latestHeight was accepted and
\* its consensus state carries the header's appHash.
C15_Witness ==
    /\ Succeeded
    /\ args.newHeader.Height = clientState.LatestHeight
    /\ ret.consensusState.Root = NewRoot(args.newHeader.AppHash)
    /\ args.newHeader.AppHash = "apphash-2"

\* C16: the gates run in the order height above old, height not below
\* latest, self-validation, verifier, and stop at the first failure: the
\* error is the earliest failing gate's and the steps evaluated end there;
\* the wall clock and the verifier are consulted only after gates 1 to 3
\* passed.
C16_GatesInOrder ==
    (Returned /\ AllTendermint) =>
      LET g1 == args.newHeader.Height > args.oldHeader.Height
          g2 == args.newHeader.Height >= clientState.LatestHeight
          consulted == {ret.steps[k] : k \in 1..Len(ret.steps)}
      IN  /\ ~g1 => /\ ret.err = NonIncreasingHeight
                    /\ ret.steps = <<"height>old">>
          /\ (g1 /\ ~g2) =>
               /\ ret.err = HeightBelowLatestTrusted
               /\ ret.steps = <<"height>old", "height>=latest">>
          /\ (g1 /\ g2 /\ ~SelfValid) =>
               /\ ret.err = ValidateBasic(args.newHeader, args.chainID)
               /\ ret.steps = <<"height>old", "height>=latest",
                                "ValidateBasic">>
          /\ (g1 /\ g2 /\ SelfValid /\ ~VerifierAccepts) =>
               /\ ret.err = BisectionVerificationFailed
               /\ ret.steps = <<"height>old", "height>=latest",
                                "ValidateBasic", "time.Now", "Verify">>
          /\ (consulted \cap {"time.Now", "Verify"} # {})
               => (g1 /\ g2 /\ SelfValid)

\* C16 witness: a header failing gates 1 and 2, self-validation and the
\* verifier at once was rejected as non-increasing after one step.
C16_Witness ==
    /\ Returned
    /\ AllTendermint
    /\ args.newHeader.Height <= args.oldHeader.Height
    /\ args.newHeader.Height < clientState.LatestHeight
    /\ ~SelfValid
    /\ ~VerifierAccepts
    /\ ret.err = NonIncreasingHeight
    /\ ret.steps = <<"height>old">>

====
